---- MODULE Spec2Model ----
(***************************************************************************)
(* A model of the Decoder of go-mp3 (decode.go): the streaming and         *)
(* positioning layer over an MP3 frame decoder.                            *)
(*                                                                         *)
(* The source is a tag followed by `nframes` frames; the last frame may be *)
(* cut short after its header (`truncated`).  The reader may or may not be *)
(* an io.Seeker (`seekable`).  A decoded byte is modelled by what decides  *)
(* its value: the frame it belongs to, its offset in that frame, whether   *)
(* the frame was decoded with the decode context of its predecessor        *)
(* (`primed`), and the volume applied when it was decoded.                 *)
(*                                                                         *)
(* A run-time panic of Go (integer division by zero, index or slice out of *)
(* range) ends the call with err = "panic"; nothing runs after it.         *)
(* The reader's own Seek and Read are taken not to fail other than by      *)
(* reaching the end of the data.                                           *)
(***************************************************************************)
EXTENDS Integers, Sequences, FiniteSets, TLC

\* ---------------------------------------------------------------- bounds
\* Largest number of frame headers in a source.
MaxFrames == 5
\* Decoded PCM bytes per frame, as the frame header reports it.
HdrBytesPerFrame == 2
\* Bytes of the leading tag that skipTags skips.
TagLen == 1
\* Bytes of a compressed frame (header included).
FrameSize == 5
\* Largest caller buffer handed to Read.
MaxReadLen == 3
\* Largest relative offset given to Seek with SeekCurrent or SeekEnd.
MaxRel == 3
\* Fractions given to SeekPercent are k / FracDenom.
FracDenom == 8
\* Volumes are counted in units of 1 / VolUnit: VolUnit stands for 1.0.
VolUnit == 1
\* Threads that call the Decoder concurrently.
NumThreads == 2
\* Largest number of frame headers in a source that several threads share.
MaxConcFrames == 2

\* ------------------------------------------------------ program constants
SeekStart == 0
SeekCurrent == 1
SeekEnd == 2
invalidLength == -1
\* SeekPercent's lookback margin.
LookbackMargin == 4
\* The bytes of a frame header, which the index scan has consumed.
HeaderLen == 4

Threads == 1..NumThreads

\* The locals of a thread that is in no call.
NoCall == [op |-> "none", a |-> 0, b |-> 0, npos |-> 0, back |-> FALSE,
           frameIndex |-> 0, i |-> 0, offset |-> 0,
           ret |-> 0, err |-> "nil"]

\* The absent frame (a nil *frame.Frame).
NoFrame == [idx |-> -1, primed |-> FALSE]

VARIABLES
    nframes,        \* source: number of frame headers in the data
    truncated,      \* source: the last frame's payload is cut short
    seekable,       \* source: the reader is an io.Seeker
    constructed,    \* NewDecoder has returned a Decoder
    srcPos,         \* d.source.pos: byte offset of the source
    length,         \* d.length
    frameStarts,    \* d.frameStarts
    bytesPerFrame,  \* d.bytesPerFrame
    buf,            \* d.buf
    frame,          \* d.frame
    pos,            \* d.pos
    volume,         \* d.volume
    lastOp,         \* the last call: [op, a, b]
    ret,            \* its integer result
    out,            \* the bytes the last Read copied to the caller
    err,            \* its error: "nil", "EOF", "invalid", "panic"
    trace,          \* what the last call did to the source: its seeks and readFrames
    mux,            \* d.mux: the thread that holds the lock, or 0
    pc,             \* per thread: where it stands in its call
    loc             \* per thread: the call's arguments and local variables

vars == <<nframes, truncated, seekable, constructed, srcPos, length, frameStarts,
          bytesPerFrame, buf, frame, pos, volume, lastOp, ret, out, err, trace,
          mux, pc, loc>>

\* ------------------------------------------------------------- arithmetic
\* Go's integer division truncates toward zero.
GoDiv(a, b) ==
    IF a >= 0 THEN a \div b ELSE -((-a) \div b)

\* Go's remainder has the sign of the dividend.
GoMod(a, b) ==
    a - b * GoDiv(a, b)

Min(a, b) ==
    IF a < b THEN a ELSE b

\* s[low:] of Go, for 0 <= low <= len(s).
SliceFrom(s, low) ==
    SubSeq(s, low + 1, Len(s))

\* ----------------------------------------------------------------- source
\* Byte offset of the header of frame k.
FrameOffset(k) ==
    TagLen + k * FrameSize

\* Number of frames whose payload is complete.
FullFrames ==
    IF truncated /\ nframes > 0 THEN nframes - 1 ELSE nframes

\* Byte offset of the end of the data.
SourceEnd ==
    IF truncated /\ nframes > 0
        THEN FrameOffset(nframes - 1) + HeaderLen
        ELSE FrameOffset(nframes)

\* The frame whose header starts at byte offset p, or -1.
FrameAt(p) ==
    IF \E k \in 0..(nframes - 1) : FrameOffset(k) = p
        THEN CHOOSE k \in 0..(nframes - 1) : FrameOffset(k) = p
        ELSE -1

\* frame.Read(source, position, prev): the frame at p decoded after prev, the
\* source position after it, and the error.
frameRead(p, prev) ==
    LET k == FrameAt(p) IN
    IF k < 0 \/ k >= FullFrames
        THEN [frame |-> NoFrame, src |-> SourceEnd, err |-> "EOF"]
        ELSE [frame |-> [idx |-> k,
                         primed |-> IF k = 0 THEN prev = NoFrame ELSE prev.idx = k - 1],
              src |-> p + FrameSize, err |-> "nil"]

\* frame.Decode(volume): the PCM bytes of a frame.
Decode(fr, vol) ==
    [j \in 1..HdrBytesPerFrame |->
        [frame |-> fr.idx, off |-> j - 1, primed |-> fr.primed, vol |-> vol]]

\* ---------------------------------------------------------------- decoder
\* The part of the Decoder that Read, Seek and SeekPercent change.
Cur ==
    [pos |-> pos, buf |-> buf, frame |-> frame, src |-> srcPos, err |-> "nil",
     log |-> <<>>]

\* The record of a readFrame: the frame at the source position (-1: none),
\* the frame whose decode context it was given (-1: nil), and whether it decoded.
Decoded(k, ctx, ok) ==
    [ev |-> "decode", k |-> k, ctx |-> ctx, ok |-> ok]

\* The record of a seek of the source to byte offset p.
Sought(p) ==
    [ev |-> "seek", k |-> p, ctx |-> -1, ok |-> TRUE]

\* What a call returns: the state it leaves, its result and its error.
Ret(s, r, e) ==
    [s |-> [s EXCEPT !.err = "nil"], ret |-> r, out |-> <<>>, err |-> e]

\* (*Decoder).readFrame
readFrame(s) ==
    LET r == frameRead(s.src, s.frame)
        l == Append(s.log, Decoded(FrameAt(s.src), s.frame.idx, r.err = "nil"))
    IN  IF r.err # "nil"
            THEN [s EXCEPT !.frame = r.frame, !.src = r.src, !.err = "EOF", !.log = l]
            ELSE [s EXCEPT !.frame = r.frame, !.src = r.src, !.log = l,
                           !.buf = s.buf \o Decode(r.frame, volume), !.err = "nil"]

\* Read decoding one frame ahead whatever the buffer holds.
ReadLoop_Ahead(s) ==
    readFrame(s)

\* The loop of Read: decode while the buffer is empty.
RECURSIVE ReadLoop(_)
ReadLoop(s) ==
    IF Len(s.buf) = 0
        THEN LET s1 == readFrame(s) IN
             IF s1.err # "nil" THEN s1 ELSE ReadLoop(s1)
        ELSE s

\* Read that copies and shortens the buffer but leaves the position where it was.
Read_KeepPos(s, cap) ==
    LET s1 == ReadLoop(s) IN
    IF s1.err # "nil"
        THEN Ret(s1, 0, s1.err)
        ELSE LET n == Min(cap, Len(s1.buf)) IN
             [s |-> [s1 EXCEPT !.buf = SliceFrom(s1.buf, n)],
              ret |-> n, out |-> SubSeq(s1.buf, 1, n), err |-> "nil"]

\* (*Decoder).Read with a caller buffer of n bytes.
Read(s, cap) ==
    LET s1 == ReadLoop(s) IN
    IF s1.err # "nil"
        THEN Ret(s1, 0, s1.err)
        ELSE LET n == Min(cap, Len(s1.buf)) IN
             [s |-> [s1 EXCEPT !.buf = SliceFrom(s1.buf, n), !.pos = s1.pos + n],
              ret |-> n, out |-> SubSeq(s1.buf, 1, n), err |-> "nil"]

\* (*source).Seek(position, io.SeekStart)
sourceSeek(s, p) ==
    [s EXCEPT !.src = p, !.log = Append(s.log, Sought(p))]

\* Seek to a frame f > 0 without the lookback: the target frame alone is decoded.
SeekLookback_NoPrev(s, f) ==
    IF f >= Len(frameStarts)
        THEN Ret(s, 0, "panic")
        ELSE LET s1 == readFrame(sourceSeek(s, frameStarts[f + 1])) IN
             IF s1.err # "nil"
                 THEN Ret(s1, 0, s1.err)
                 ELSE Ret([s1 EXCEPT !.buf = SliceFrom(s1.buf, GoMod(s1.pos, bytesPerFrame))],
                          s1.pos, "nil")

\* Seek to a frame f > 0 cutting the buffer as if it held the target frame
\* alone: the output of the frame before it stays in front.
SeekLookback_KeepPrev(s, f) ==
    IF f - 1 >= Len(frameStarts)
        THEN Ret(s, 0, "panic")
        ELSE LET s1 == readFrame(sourceSeek(s, frameStarts[f])) IN
             IF s1.err # "nil"
                 THEN Ret(s1, 0, s1.err)
                 ELSE LET s2 == readFrame(s1) IN
                      IF s2.err # "nil"
                          THEN Ret(s2, 0, s2.err)
                          ELSE Ret([s2 EXCEPT !.buf = SliceFrom(s2.buf,
                                                         GoMod(s2.pos, bytesPerFrame))],
                                   s2.pos, "nil")

\* Seek, the branch of a target frame f > 0 (lines 118-128).
SeekLookback(s, f) ==
    IF f - 1 >= Len(frameStarts)
        THEN Ret(s, 0, "panic")
        ELSE LET s1 == readFrame(sourceSeek(s, frameStarts[f])) IN
             IF s1.err # "nil"
                 THEN Ret(s1, 0, s1.err)
                 ELSE LET s2 == readFrame(s1) IN
                      IF s2.err # "nil"
                          THEN Ret(s2, 0, s2.err)
                          ELSE LET low == bytesPerFrame + GoMod(s2.pos, bytesPerFrame) IN
                               IF low < 0 \/ low > Len(s2.buf)
                                   THEN Ret(s2, 0, "panic")
                                   ELSE Ret([s2 EXCEPT !.buf = SliceFrom(s2.buf, low)],
                                            s2.pos, "nil")

\* Seek, the branch of a target frame f <= 0 (lines 130-136).
SeekFirst(s, f) ==
    IF f < 0 \/ f >= Len(frameStarts)
        THEN Ret(s, 0, "panic")
        ELSE LET s1 == readFrame(sourceSeek(s, frameStarts[f + 1])) IN
             IF s1.err # "nil"
                 THEN Ret(s1, 0, s1.err)
                 ELSE IF s1.pos < 0 \/ s1.pos > Len(s1.buf)
                          THEN Ret(s1, 0, "panic")
                          ELSE Ret([s1 EXCEPT !.buf = SliceFrom(s1.buf, s1.pos)],
                                   s1.pos, "nil")

\* Seek, lines 100-138: the target, then the repositioning.
SeekMove(s, offset, whence) ==
    IF whence \notin {SeekStart, SeekCurrent, SeekEnd}
        THEN Ret(s, 0, "invalid")
        ELSE LET npos == CASE whence = SeekStart -> offset
                           [] whence = SeekCurrent -> s.pos + offset
                           [] whence = SeekEnd -> length + offset
                 s1 == [s EXCEPT !.pos = npos, !.buf = <<>>, !.frame = NoFrame]
             IN  IF bytesPerFrame = 0
                     THEN Ret(s1, 0, "panic")
                     ELSE LET f == GoDiv(npos, bytesPerFrame) IN
                          IF f > 0 THEN SeekLookback(s1, f) ELSE SeekFirst(s1, f)

\* Seek without the special case of lines 95-98: the query repositions.
Seek_NoQuery(s, offset, whence) ==
    SeekMove(s, offset, whence)

\* Seek dropping the buffer and the context before it looks at the origin.
Seek_ClearFirst(s, offset, whence) ==
    IF offset = 0 /\ whence = SeekCurrent
        THEN Ret(s, s.pos, "nil")
        ELSE SeekMove([s EXCEPT !.buf = <<>>, !.frame = NoFrame], offset, whence)

\* (*Decoder).Seek
Seek(s, offset, whence) ==
    IF offset = 0 /\ whence = SeekCurrent
        THEN Ret(s, s.pos, "nil")
        ELSE SeekMove(s, offset, whence)

\* The start frame clamped to 0 with the margin left whole.
Lookback_Clamp(frameIndex, offset) ==
    IF frameIndex < 0
        THEN [frameIndex |-> 0, offset |-> offset]
        ELSE [frameIndex |-> frameIndex, offset |-> offset]

\* SeekPercent, lines 164-167: step the start frame up to 0, shrinking the margin.
RECURSIVE Lookback(_, _)
Lookback(frameIndex, offset) ==
    IF frameIndex < 0
        THEN Lookback(frameIndex + 1, offset - 1)
        ELSE [frameIndex |-> frameIndex, offset |-> offset]

\* SeekPercent, lines 177-185: decode `offset` frames, keeping only the last one's output.
RECURSIVE PreRoll(_, _, _)
PreRoll(s, i, offset) ==
    IF i < offset
        THEN LET s1 == readFrame([s EXCEPT !.buf = <<>>]) IN
             IF s1.err # "nil" THEN s1 ELSE PreRoll(s1, i + 1, offset)
        ELSE s

\* int64(float64(len(d.frameStarts)) * where) for where = num / FracDenom.
TargetFrame(num) ==
    GoDiv(Len(frameStarts) * num, FracDenom)

\* (*Decoder).SeekPercent(num / FracDenom)
SeekPercent(s, num) ==
    IF num < 0 \/ num > FracDenom
        THEN Ret(s, 0, "invalid")
        ELSE LET lb == Lookback(TargetFrame(num) - LookbackMargin, LookbackMargin)
                 s1 == [s EXCEPT !.frame = NoFrame, !.pos = bytesPerFrame * lb.frameIndex]
             IN  IF lb.frameIndex >= Len(frameStarts)
                     THEN Ret(s1, 0, "panic")
                     ELSE LET s2 == PreRoll(sourceSeek(s1, frameStarts[lb.frameIndex + 1]),
                                            0, lb.offset) IN
                          IF s2.err # "nil"
                              THEN Ret(s2, 0, s2.err)
                              ELSE Ret(s2, s2.pos, "nil")

\* The scan indexing a frame whose payload is cut short without adding its
\* bytes to the length.
RECURSIVE Scan_SkipPartial(_, _, _, _)
Scan_SkipPartial(p, starts, bpf, l) ==
    LET k == FrameAt(p) IN
    IF k < 0
        THEN [starts |-> starts, bpf |-> bpf, l |-> l]
        ELSE IF k >= FullFrames
            THEN [starts |-> Append(starts, p), bpf |-> HdrBytesPerFrame, l |-> l]
            ELSE Scan_SkipPartial(p + HeaderLen + (FrameSize - HeaderLen), Append(starts, p),
                                  HdrBytesPerFrame, l + HdrBytesPerFrame)

\* The loop of ensureFrameStartsAndLength (lines 219-246) from byte offset p.
RECURSIVE Scan(_, _, _, _)
Scan(p, starts, bpf, l) ==
    LET k == FrameAt(p) IN
    IF k < 0
        THEN [starts |-> starts, bpf |-> bpf, l |-> l]
        ELSE IF k >= FullFrames
            THEN [starts |-> Append(starts, p), bpf |-> HdrBytesPerFrame,
                  l |-> l + HdrBytesPerFrame]
            ELSE Scan(p + HeaderLen + (FrameSize - HeaderLen), Append(starts, p),
                      HdrBytesPerFrame, l + HdrBytesPerFrame)

\* ensureFrameStartsAndLength leaving the source where the scan ended.
ensureFrameStartsAndLength_NoRestore(p) ==
    IF ~seekable
        THEN [starts |-> <<>>, bpf |-> 0, l |-> invalidLength, src |-> p]
        ELSE LET ix == Scan(TagLen, <<>>, 0, 0) IN
             [starts |-> ix.starts, bpf |-> ix.bpf, l |-> ix.l, src |-> SourceEnd]

\* (*Decoder).ensureFrameStartsAndLength with the source at byte offset p: the
\* index, or nothing on a plain reader.  The scan starts after the tag
\* (lines 211-215) and the source is put back at p (lines 207, 249).
ensureFrameStartsAndLength(p) ==
    IF ~seekable
        THEN [starts |-> <<>>, bpf |-> 0, l |-> invalidLength, src |-> p]
        ELSE LET ix == Scan(TagLen, <<>>, 0, 0) IN
             [starts |-> ix.starts, bpf |-> ix.bpf, l |-> ix.l, src |-> p]

\* SetVolume without the lower bound of lines 280-281.
Clamp_NoLower(v) ==
    IF v > VolUnit THEN VolUnit ELSE v

\* (*Decoder).SetVolume
Clamp(v) ==
    IF v > VolUnit THEN VolUnit ELSE IF v < 0 THEN 0 ELSE v

\* ---------------------------------------------------------------- actions
Running ==
    constructed /\ err # "panic"

Stream ==
    <<nframes, truncated, seekable>>

Index ==
    <<length, frameStarts, bytesPerFrame>>

Conc ==
    <<mux, pc, loc>>

\* The variables take the state a call leaves.
Leave(r) ==
    /\ pos' = r.s.pos
    /\ buf' = r.s.buf
    /\ frame' = r.s.frame
    /\ srcPos' = r.s.src
    /\ ret' = r.ret
    /\ out' = r.out
    /\ err' = r.err
    /\ trace' = r.s.log

Init ==
    /\ nframes \in 0..MaxFrames
    /\ truncated \in BOOLEAN
    /\ seekable \in BOOLEAN
    /\ (truncated => nframes > 0)
    /\ constructed = FALSE
    /\ srcPos = 0
    /\ length = invalidLength
    /\ frameStarts = <<>>
    /\ bytesPerFrame = 0
    /\ buf = <<>>
    /\ frame = NoFrame
    /\ pos = 0
    /\ volume = 0
    /\ lastOp = [op |-> "none", a |-> 0, b |-> 0]
    /\ ret = 0
    /\ out = <<>>
    /\ err = "nil"
    /\ trace = <<>>
    /\ mux = 0
    /\ pc = [t \in Threads |-> "idle"]
    /\ loc = [t \in Threads |-> NoCall]

\* NewDecoder: skip the tag, decode the first frame, build the index, volume 1.
\* The first frame is decoded before the volume is set.
NewDecoder ==
    /\ ~constructed
    /\ lastOp.op = "none"
    /\ lastOp' = [op |-> "NewDecoder", a |-> 0, b |-> 0]
    /\ LET s1 == readFrame([Cur EXCEPT !.src = TagLen]) IN
       IF s1.err # "nil"
           THEN /\ Leave(Ret(s1, 0, s1.err))
                /\ UNCHANGED <<constructed, volume, Index>>
           ELSE LET ix == ensureFrameStartsAndLength(s1.src) IN
                /\ Leave(Ret([s1 EXCEPT !.src = ix.src], 0, "nil"))
                /\ constructed' = TRUE
                /\ frameStarts' = ix.starts
                /\ bytesPerFrame' = ix.bpf
                /\ length' = ix.l
                /\ volume' = VolUnit
    /\ UNCHANGED <<Stream, Conc>>

DoRead ==
    /\ Running
    /\ \E cap \in 0..MaxReadLen :
        /\ lastOp' = [op |-> "Read", a |-> cap, b |-> 0]
        /\ Leave(Read(Cur, cap))
    /\ UNCHANGED <<Stream, Conc, constructed, Index, volume>>

\* The offsets given to Seek: every absolute target up to two frames past the
\* end with SeekStart, the small relative ones with SeekCurrent and SeekEnd,
\* and two with an origin that is none of the three (the offset is not looked
\* at before the origin is rejected).
SeekOffsets(whence) ==
    IF whence = SeekStart
        THEN (-(HdrBytesPerFrame + 1))..((nframes + 2) * HdrBytesPerFrame)
        ELSE IF whence \in {SeekCurrent, SeekEnd}
            THEN (-MaxRel)..MaxRel
            ELSE 0..1

DoSeek ==
    /\ Running
    /\ \E whence \in 0..3 : \E offset \in SeekOffsets(whence) :
        /\ lastOp' = [op |-> "Seek", a |-> offset, b |-> whence]
        /\ Leave(Seek(Cur, offset, whence))
    /\ UNCHANGED <<Stream, Conc, constructed, Index, volume>>

DoSeekPercent ==
    /\ Running
    /\ \E num \in (-1)..(FracDenom + 1) :
        /\ lastOp' = [op |-> "SeekPercent", a |-> num, b |-> 0]
        /\ Leave(SeekPercent(Cur, num))
    /\ UNCHANGED <<Stream, Conc, constructed, Index, volume>>

DoSetVolume ==
    /\ Running
    /\ \E v \in (-1)..(VolUnit + 1) :
        /\ lastOp' = [op |-> "SetVolume", a |-> v, b |-> 0]
        /\ volume' = Clamp(v)
    /\ ret' = 0
    /\ out' = <<>>
    /\ err' = "nil"
    /\ trace' = <<>>
    /\ UNCHANGED <<Stream, Conc, constructed, Index, srcPos, buf, frame, pos>>

DoGetVolume ==
    /\ Running
    /\ lastOp' = [op |-> "GetVolume", a |-> 0, b |-> 0]
    /\ ret' = volume
    /\ out' = <<>>
    /\ err' = "nil"
    /\ trace' = <<>>
    /\ UNCHANGED <<Stream, Conc, constructed, Index, srcPos, buf, frame, pos, volume>>

DoLength ==
    /\ Running
    /\ lastOp' = [op |-> "Length", a |-> 0, b |-> 0]
    /\ ret' = length
    /\ out' = <<>>
    /\ err' = "nil"
    /\ trace' = <<>>
    /\ UNCHANGED <<Stream, Conc, constructed, Index, srcPos, buf, frame, pos, volume>>

Next ==
    \/ NewDecoder
    \/ DoRead
    \/ DoSeek
    \/ DoSeekPercent
    \/ DoSetVolume
    \/ DoGetVolume
    \/ DoLength

Spec ==
    Init /\ [][Next]_vars

\* ------------------------------------------------- the calls, step by step
\* Several threads call Read, Seek and SeekPercent on one Decoder.  A call is a
\* sequence of steps, each one access to the Decoder; sync.Mutex lets one
\* thread at a time past Lock.
Fixed ==
    <<Stream, constructed, Index, volume, trace>>

SharedVars ==
    <<pos, buf, frame, srcPos>>

Result ==
    <<lastOp, ret, out, err>>

Shared(s) ==
    /\ pos' = s.pos
    /\ buf' = s.buf
    /\ frame' = s.frame
    /\ srcPos' = s.src

Goto(t, label, locals) ==
    /\ pc' = [pc EXCEPT ![t] = label]
    /\ loc' = [loc EXCEPT ![t] = locals]

\* The arguments the threads give to Seek: <<offset, whence>>.
ConcSeeks ==
    {<<x, SeekStart>> : x \in 0..(nframes * HdrBytesPerFrame)}
        \cup {<<0, SeekCurrent>>, <<1, SeekCurrent>>, <<-1, SeekEnd>>, <<0, 3>>}

\* The numerators of the fractions the threads give to SeekPercent.
ConcFracs ==
    {-1, 0, FracDenom \div 2, FracDenom, FracDenom + 1}

\* Thread t's call returns to its caller, which keeps the result to itself.
Return(t) ==
    /\ Goto(t, "idle", NoCall)
    /\ UNCHANGED Result

\* A run-time panic: the program ends where it stands.
Panic ==
    /\ err' = "panic"
    /\ UNCHANGED <<lastOp, ret, out, pc, loc>>

\* Read, line 74: d.mux.Lock()
ReadLock(t) ==
    /\ Running
    /\ pc[t] = "idle"
    /\ mux = 0
    /\ mux' = t
    /\ \E cap \in 0..MaxReadLen :
        Goto(t, "Read_loop", [NoCall EXCEPT !.op = "Read", !.a = cap])
    /\ UNCHANGED <<Fixed, SharedVars, Result>>

\* Read, lines 76-80: one turn of the loop.
ReadFill(t) ==
    /\ Running
    /\ pc[t] = "Read_loop"
    /\ IF Len(buf) = 0
           THEN LET s1 == readFrame(Cur) IN
                /\ Shared(s1)
                /\ IF s1.err # "nil"
                       THEN Goto(t, "Read_ret", [loc[t] EXCEPT !.ret = 0, !.err = s1.err])
                       ELSE UNCHANGED <<pc, loc>>
           ELSE /\ Goto(t, "Read_copy", loc[t])
                /\ UNCHANGED SharedVars
    /\ UNCHANGED <<Fixed, Result, mux>>

\* Read, lines 81-83: copy, shorten the buffer, advance the position.
ReadCopy(t) ==
    /\ Running
    /\ pc[t] = "Read_copy"
    /\ LET n == Min(loc[t].a, Len(buf)) IN
        /\ Shared([Cur EXCEPT !.buf = SliceFrom(buf, n), !.pos = pos + n])
        /\ Goto(t, "Read_ret", [loc[t] EXCEPT !.ret = n])
    /\ UNCHANGED <<Fixed, Result, mux>>

\* Read, line 75 deferred: d.mux.Unlock(), and the return.
ReadUnlock(t) ==
    /\ Running
    /\ pc[t] = "Read_ret"
    /\ mux' = 0
    /\ Return(t)
    /\ UNCHANGED <<Fixed, SharedVars>>

\* Seek, lines 95-110: the query, the origin, the target.  No lock is taken.
SeekEnter(t) ==
    /\ Running
    /\ pc[t] = "idle"
    /\ \E args \in ConcSeeks :
        LET offset == args[1]
            whence == args[2]
            call == [NoCall EXCEPT !.op = "Seek", !.a = offset, !.b = whence]
        IN
        IF offset = 0 /\ whence = SeekCurrent
            THEN Return(t)
            ELSE IF whence \notin {SeekStart, SeekCurrent, SeekEnd}
                THEN Return(t)
                ELSE /\ Goto(t, "Seek_set",
                             [call EXCEPT !.npos = CASE whence = SeekStart -> offset
                                                     [] whence = SeekCurrent -> pos + offset
                                                     [] whence = SeekEnd -> length + offset])
                     /\ UNCHANGED Result
    /\ UNCHANGED <<Fixed, SharedVars, mux>>

\* Seek, lines 111-113: store the target, drop the buffer and the context.
SeekSet(t) ==
    /\ Running
    /\ pc[t] = "Seek_set"
    /\ Shared([Cur EXCEPT !.pos = loc[t].npos, !.buf = <<>>, !.frame = NoFrame])
    /\ Goto(t, "Seek_src", loc[t])
    /\ UNCHANGED <<Fixed, Result, mux>>

\* Seek, lines 114-121 and 130-132: the frame of d.pos, and the source there.
SeekSource(t) ==
    /\ Running
    /\ pc[t] = "Seek_src"
    /\ IF bytesPerFrame = 0
           THEN Panic /\ UNCHANGED SharedVars
           ELSE LET f == GoDiv(pos, bytesPerFrame)
                    g == IF f > 0 THEN f - 1 ELSE f
                IN  IF g < 0 \/ g >= Len(frameStarts)
                        THEN Panic /\ UNCHANGED SharedVars
                        ELSE /\ Shared(sourceSeek(Cur, frameStarts[g + 1]))
                             /\ Goto(t, "Seek_rf1", [loc[t] EXCEPT !.back = (f > 0)])
                             /\ UNCHANGED Result
    /\ UNCHANGED <<Fixed, mux>>

\* Seek, line 122 or 133: the first readFrame.
SeekReadFrame1(t) ==
    /\ Running
    /\ pc[t] = "Seek_rf1"
    /\ LET s1 == readFrame(Cur) IN
        /\ Shared(s1)
        /\ IF s1.err # "nil"
               THEN Return(t)
               ELSE /\ Goto(t, IF loc[t].back THEN "Seek_rf2" ELSE "Seek_slice", loc[t])
                    /\ UNCHANGED Result
    /\ UNCHANGED <<Fixed, mux>>

\* Seek, line 125: the readFrame of the target frame after its predecessor.
SeekReadFrame2(t) ==
    /\ Running
    /\ pc[t] = "Seek_rf2"
    /\ LET s1 == readFrame(Cur) IN
        /\ Shared(s1)
        /\ IF s1.err # "nil"
               THEN Return(t)
               ELSE Goto(t, "Seek_slice", loc[t]) /\ UNCHANGED Result
    /\ UNCHANGED <<Fixed, mux>>

\* Seek, line 128 or 136: cut the buffer down to the target, and the return.
SeekSlice(t) ==
    /\ Running
    /\ pc[t] = "Seek_slice"
    /\ LET low == IF loc[t].back
                      THEN bytesPerFrame + GoMod(pos, bytesPerFrame)
                      ELSE pos
       IN  IF low < 0 \/ low > Len(buf)
               THEN Panic /\ UNCHANGED SharedVars
               ELSE /\ Shared([Cur EXCEPT !.buf = SliceFrom(buf, low)])
                    /\ Return(t)
    /\ UNCHANGED <<Fixed, mux>>

\* SeekPercent, lines 150-158: the range check, then d.mux.Lock().
SeekPercentLock(t) ==
    /\ Running
    /\ pc[t] = "idle"
    /\ \E num \in ConcFracs :
        LET call == [NoCall EXCEPT !.op = "SeekPercent", !.a = num] IN
        IF num < 0 \/ num > FracDenom
            THEN Return(t) /\ UNCHANGED mux
            ELSE /\ mux = 0
                 /\ mux' = t
                 /\ Goto(t, "SP_set", call)
                 /\ UNCHANGED Result
    /\ UNCHANGED <<Fixed, SharedVars>>

\* SeekPercent, lines 162-171: the start frame, the margin, the position.
SeekPercentSet(t) ==
    /\ Running
    /\ pc[t] = "SP_set"
    /\ LET lb == Lookback(TargetFrame(loc[t].a) - LookbackMargin, LookbackMargin) IN
        /\ Shared([Cur EXCEPT !.frame = NoFrame, !.pos = bytesPerFrame * lb.frameIndex])
        /\ Goto(t, "SP_src", [loc[t] EXCEPT !.frameIndex = lb.frameIndex,
                                            !.offset = lb.offset, !.i = 0])
    /\ UNCHANGED <<Fixed, Result, mux>>

\* SeekPercent, lines 172-174: the source to the start frame.
SeekPercentSource(t) ==
    /\ Running
    /\ pc[t] = "SP_src"
    /\ IF loc[t].frameIndex >= Len(frameStarts)
           THEN Panic /\ UNCHANGED SharedVars
           ELSE /\ Shared(sourceSeek(Cur, frameStarts[loc[t].frameIndex + 1]))
                /\ Goto(t, "SP_loop", loc[t])
                /\ UNCHANGED Result
    /\ UNCHANGED <<Fixed, mux>>

\* SeekPercent, lines 177-187: one turn of the pre-roll loop, or its end.
SeekPercentLoop(t) ==
    /\ Running
    /\ pc[t] = "SP_loop"
    /\ IF loc[t].i < loc[t].offset
           THEN LET s1 == readFrame([Cur EXCEPT !.buf = <<>>]) IN
                /\ Shared(s1)
                /\ IF s1.err # "nil"
                       THEN Goto(t, "SP_ret", [loc[t] EXCEPT !.ret = 0, !.err = s1.err])
                       ELSE Goto(t, "SP_loop",
                                 [loc[t] EXCEPT !.i = @ + 1, !.frameIndex = @ + 1])
           ELSE /\ Goto(t, "SP_ret", [loc[t] EXCEPT !.ret = pos])
                /\ UNCHANGED SharedVars
    /\ UNCHANGED <<Fixed, Result, mux>>

\* SeekPercent, line 159 deferred: d.mux.Unlock(), and the return.
SeekPercentUnlock(t) ==
    /\ Running
    /\ pc[t] = "SP_ret"
    /\ mux' = 0
    /\ Return(t)
    /\ UNCHANGED <<Fixed, SharedVars>>

ConcNext ==
    \/ NewDecoder
    \/ \E t \in Threads : ReadLock(t)
    \/ \E t \in Threads : ReadFill(t)
    \/ \E t \in Threads : ReadCopy(t)
    \/ \E t \in Threads : ReadUnlock(t)
    \/ \E t \in Threads : SeekEnter(t)
    \/ \E t \in Threads : SeekSet(t)
    \/ \E t \in Threads : SeekSource(t)
    \/ \E t \in Threads : SeekReadFrame1(t)
    \/ \E t \in Threads : SeekReadFrame2(t)
    \/ \E t \in Threads : SeekSlice(t)
    \/ \E t \in Threads : SeekPercentLock(t)
    \/ \E t \in Threads : SeekPercentSet(t)
    \/ \E t \in Threads : SeekPercentSource(t)
    \/ \E t \in Threads : SeekPercentLoop(t)
    \/ \E t \in Threads : SeekPercentUnlock(t)

ConcInit ==
    Init /\ nframes <= MaxConcFrames

ConcSpec ==
    ConcInit /\ [][ConcNext]_vars

\* ------------------------------------------------------ what claims speak of
\* The last call was Seek with these arguments.
SeekCall(offset, whence) ==
    lastOp = [op |-> "Seek", a |-> offset, b |-> whence]

\* The last call was a Seek that repositions: a valid origin, and not the query.
SeekMoved ==
    /\ lastOp.op = "Seek"
    /\ lastOp.b \in {SeekStart, SeekCurrent, SeekEnd}
    /\ ~(lastOp.a = 0 /\ lastOp.b = SeekCurrent)

\* The last call was SeekPercent with a fraction in [0, 1].
SeekPercentValid ==
    lastOp.op = "SeekPercent" /\ lastOp.a \in 0..FracDenom

\* What decides a decoded byte's value, the volume aside.
Content(b) ==
    [frame |-> b.frame, off |-> b.off, primed |-> b.primed]

\* The byte at offset p of the decoded stream, as a sequential read from the
\* start delivers it: every frame decoded after its predecessor.
StreamByte(p) ==
    [frame |-> p \div HdrBytesPerFrame, off |-> p % HdrBytesPerFrame, primed |-> TRUE]

\* The bytes at offsets p .. p + n - 1 of the decoded stream.
StreamBytes(p, n) ==
    [i \in 1..n |-> StreamByte(p + i - 1)]

Contents(bytes) ==
    [i \in 1..Len(bytes) |-> Content(bytes[i])]

\* The decoder stands at offset pos of the stream: the buffer holds the rest of
\* the frame pos lies in and the source is at the next frame, or the buffer is
\* empty at a frame boundary and the source is at that frame (or at the end).
AtStreamOffset ==
    LET f == pos \div HdrBytesPerFrame
        o == pos % HdrBytesPerFrame
    IN  IF buf = <<>>
            THEN /\ o = 0
                 /\ \/ /\ srcPos = FrameOffset(f)
                       /\ frame.idx = f - 1
                    \/ /\ f >= FullFrames
                       /\ srcPos = SourceEnd
            ELSE /\ Contents(buf) = StreamBytes(pos, HdrBytesPerFrame - o)
                 /\ srcPos = FrameOffset(f + 1)
                 /\ frame.idx = f

\* Thread t is inside a call: it has passed Lock, or has made Seek's first
\* write to the Decoder, and has not returned.
Inside(t) ==
    pc[t] \notin {"idle", "Seek_set"}

\* The number of bytes Reads in a row deliver from state s until one of them
\* reports an error.
RECURSIVE Delivered(_)
Delivered(s) ==
    LET r == Read(s, MaxReadLen) IN
    IF r.err # "nil" THEN 0 ELSE r.ret + Delivered(r.s)

\* ------------------------------------------------------------------ claims
\* C1: Read, Seek and SeekPercent exclude one another: while one thread is
\* inside one of them, no step of another thread's call takes place, so two
\* threads are never inside their calls at once.
C1_MutualExclusion ==
    \A t1, t2 \in Threads :
        (t1 # t2) => ~(Inside(t1) /\ Inside(t2))

\* C2: on a seekable source, for every x with 0 <= x < Length(),
\* Seek(x, SeekStart) succeeds and returns x, and a following
\* Seek(0, SeekCurrent) returns x.
C2_SeekRoundTrip ==
    \A x \in 0..(length - 1) :
        (seekable /\ SeekCall(x, SeekStart))
            => /\ err = "nil"
               /\ ret = x
               /\ Seek(Cur, 0, SeekCurrent).ret = x

\* C3: after a successful Seek to offset x in frame f the buffer holds frame f
\* from in-frame offset x mod bytesPerFrame to its end and the source is at the
\* start of frame f + 1; and from a decoder that stands at a stream offset a
\* Read delivers the stream's bytes from that offset and leaves the decoder
\* standing at the offset after them.
C3_SeekLandsOnStream ==
    /\ []((SeekMoved /\ err = "nil")
            => /\ pos = ret
               /\ AtStreamOffset
               /\ Len(buf) = bytesPerFrame - (ret % bytesPerFrame)
               /\ srcPos = FrameOffset((ret \div bytesPerFrame) + 1))
    /\ [][(AtStreamOffset /\ lastOp'.op = "Read" /\ err' = "nil")
            => /\ Contents(out') = StreamBytes(pos, ret')
               /\ pos' = pos + ret'
               /\ AtStreamOffset']_vars

\* A Seek into a frame after the first has succeeded, to the middle of the frame.
C3_Witness ==
    /\ SeekMoved
    /\ err = "nil"
    /\ ret \div bytesPerFrame >= 2
    /\ ret % bytesPerFrame > 0
    /\ Len(buf) > 0

\* C4: Seek(0, SeekCurrent) returns the logical position and changes neither
\* the position, the buffer, the decode context nor the source position.
C4_SeekQueryIsPure ==
    [][SeekCall(0, SeekCurrent)'
        => /\ ret' = pos
           /\ err' = "nil"
           /\ UNCHANGED <<pos, buf, frame, srcPos>>]_vars

\* The query has been made with bytes in the buffer, away from offset 0.
C4_Witness ==
    /\ SeekCall(0, SeekCurrent)
    /\ ret = pos
    /\ pos > 0
    /\ buf # <<>>

\* C5: a successful SeekPercent(f) leaves a position p that is a multiple of
\* bytesPerFrame, within 4 frames of bytesPerFrame * frameCount * f.
\* (f = lastOp.a / FracDenom; the inequalities are multiplied by FracDenom.)
C5_SeekPercentWithinMargin ==
    (SeekPercentValid /\ err = "nil")
        => LET n == Len(frameStarts)
               exact == bytesPerFrame * n * lastOp.a
               slack == LookbackMargin * bytesPerFrame * FracDenom
           IN  /\ ret = pos
               /\ pos % bytesPerFrame = 0
               /\ exact - slack <= pos * FracDenom
               /\ pos * FracDenom <= exact + slack

\* C6: the position SeekPercent(f) returns and stores is
\* bytesPerFrame * floor(frameCount * f).
C6_SeekPercentReportsTarget ==
    (SeekPercentValid /\ err = "nil")
        => /\ ret = bytesPerFrame * ((Len(frameStarts) * lastOp.a) \div FracDenom)
           /\ pos = ret

\* C7: after a successful SeekPercent the first byte the next Read delivers is
\* the stream's byte at the position SeekPercent reported.
C7_SeekPercentDiscardsPreRoll ==
    (SeekPercentValid /\ err = "nil" /\ ret < FullFrames * bytesPerFrame)
        => LET r == Read(Cur, 1) IN
           /\ r.err = "nil"
           /\ Contents(r.out) = StreamBytes(ret, 1)

\* C8: on a source that cannot seek, every repositioning Seek and every
\* SeekPercent(f) with f in [0, 1] returns an error: no success, no crash.
C8_UnseekableSeekFails ==
    (constructed /\ ~seekable /\ (SeekMoved \/ SeekPercentValid))
        => err \notin {"nil", "panic"}

\* C9: on a seekable source a Seek whose target lies beyond Length() returns an
\* error: no success, no crash.  (A repositioning Seek stores its target in pos
\* before anything else.)
C9_SeekBeyondEndFails ==
    (constructed /\ seekable /\ SeekMoved /\ pos > length)
        => err \notin {"nil", "panic"}

\* C10: SeekPercent(f) with f < 0 or f > 1, and Seek with an origin that is
\* none of SeekStart, SeekCurrent, SeekEnd, return an error and leave the
\* position, the buffer, the decode context and the source position as they were.
C10_InvalidArgumentsRejected ==
    [][(\/ lastOp'.op = "SeekPercent" /\ lastOp'.a \notin 0..FracDenom
        \/ lastOp'.op = "Seek" /\ lastOp'.b \notin {SeekStart, SeekCurrent, SeekEnd})
        => /\ err' = "invalid"
           /\ UNCHANGED <<pos, buf, frame, srcPos>>]_vars

\* A Seek with an unknown origin has been rejected with bytes in the buffer.
C10_Witness ==
    /\ lastOp.op = "Seek"
    /\ lastOp.b = 3
    /\ lastOp.a # 0
    /\ err = "invalid"
    /\ pos > 0
    /\ buf # <<>>

\* What a Read step does, the sign of its count aside: without error it
\* copies n = min(caller's capacity, bytes buffered after the refill) bytes, the
\* first n of the buffer, and advances the position by n; at the end of the
\* stream it returns 0 bytes and leaves the position.
ReadAdvances ==
    /\ (err' = "nil")
        => /\ (buf # <<>>) => (out' \o buf' = buf)
           /\ (buf = <<>>) => (Len(out' \o buf') = HdrBytesPerFrame)
           /\ ret' = Min(lastOp'.a, Len(out' \o buf'))
           /\ Len(out') = ret'
           /\ pos' = pos + ret'
    /\ (err' # "nil")
        => /\ err' = "EOF"
           /\ ret' = 0
           /\ out' = <<>>
           /\ pos' = pos

\* C11 as stated: every Read that reports no error and no end of stream returns
\* n > 0 with n = min(capacity, buffered), moves the position by n and shortens
\* the buffer by its first n bytes; at the end of the stream it returns 0 and
\* leaves the position.
C11_ReadMonotone ==
    [][(lastOp'.op = "Read")
        => /\ ReadAdvances
           /\ (err' = "nil") => (ret' > 0)]_vars

\* C11 as amended: the same, with n > 0 for every caller buffer that has room
\* for at least one byte (a Read into an empty buffer returns 0 and no error).
C11_ReadMonotoneNonEmpty ==
    [][(lastOp'.op = "Read")
        => /\ ReadAdvances
           /\ (err' = "nil" /\ lastOp'.a > 0) => (ret' > 0)]_vars

\* A Read has delivered fewer bytes than the caller had room for, away from
\* the start of the stream.
C11_Witness ==
    /\ lastOp.op = "Read"
    /\ err = "nil"
    /\ ret > 0
    /\ ret < lastOp.a
    /\ Len(out) = ret
    /\ pos > ret

\* C12: once NewDecoder has built the index, frameStarts is strictly
\* increasing and Length() is bytesPerFrame times the number of its entries;
\* no later call changes frameStarts, bytesPerFrame or length, and Length()
\* returns that length.
C12_IndexBuiltOnce ==
    /\ []((constructed /\ seekable)
            => /\ \A i, j \in 1..Len(frameStarts) :
                    (i < j) => (frameStarts[i] < frameStarts[j])
               /\ Len(frameStarts) > 0
               /\ length = bytesPerFrame * Len(frameStarts))
    /\ [][constructed
            => /\ UNCHANGED <<length, frameStarts, bytesPerFrame>>
               /\ (lastOp'.op = "Length") => (ret' = length)]_vars

\* Length() has been called on an index of several frames, the last of them
\* cut short, after the position has moved.
C12_Witness ==
    /\ constructed
    /\ seekable
    /\ truncated
    /\ Len(frameStarts) >= 3
    /\ lastOp.op = "Length"
    /\ ret = bytesPerFrame * Len(frameStarts)
    /\ pos > 0

\* C13: the volume of a constructed Decoder is always within [0, 1];
\* SetVolume(v) stores 0 for v < 0, 1 for v > 1 and v otherwise, and GetVolume
\* returns the stored value.  (1.0 is VolUnit.)
C13_VolumeClamped ==
    /\ [](constructed => (0 <= volume /\ volume <= VolUnit))
    /\ [][/\ (lastOp'.op = "SetVolume")
                => volume' = (CASE lastOp'.a < 0 -> 0
                                [] lastOp'.a > VolUnit -> VolUnit
                                [] OTHER -> lastOp'.a)
          /\ (lastOp'.op = "GetVolume")
                => (ret' = volume /\ volume' = volume)]_vars

\* SetVolume has been given a negative volume and has stored 0.
C13_Witness ==
    /\ lastOp.op = "SetVolume"
    /\ lastOp.a < 0
    /\ volume = 0

C16_IndexScanRestoresSource ==
    /\ []((lastOp.op = "NewDecoder" /\ constructed)
            => /\ pos = 0
               /\ srcPos = FrameOffset(1)
               /\ frame.idx = 0
               /\ Contents(buf) = StreamBytes(0, HdrBytesPerFrame)
               /\ AtStreamOffset)
    /\ [][(constructed /\ AtStreamOffset /\ lastOp'.op = "Read")
            => /\ AtStreamOffset'
               /\ (err' = "nil") => (Contents(out') = StreamBytes(pos, ret'))
               /\ (err' # "nil") => (pos >= FullFrames * HdrBytesPerFrame)]_vars

\* On a scanned source a Read has crossed from frame 0 into the frames that
\* follow the restored source position.
C16_Witness ==
    /\ constructed
    /\ seekable
    /\ Len(frameStarts) >= 3
    /\ lastOp.op = "Read"
    /\ err = "nil"
    /\ AtStreamOffset
    /\ frame.idx = 2
    /\ Contents(out) = StreamBytes(pos - ret, ret)
    /\ ret > 0

\* C17: a Seek or SeekPercent that fails because the stream ends while it
\* decodes leaves the logical position, which a following Seek(0, SeekCurrent)
\* reports, as it was before the call.
C17_FailedSeekKeepsPosition ==
    [][(constructed /\ lastOp'.op \in {"Seek", "SeekPercent"} /\ err' = "EOF")
        => /\ pos' = pos
           /\ Seek([Cur EXCEPT !.pos = pos'], 0, SeekCurrent).ret = pos]_vars

\* C18: Read decodes a frame only when the output buffer is empty, and then
\* one frame; and after a completed NewDecoder, Read, Seek or SeekPercent the
\* output buffer holds no more than the bytes one frame decodes to, all of
\* them the tail of a single frame.
C18_PullBasedBound ==
    /\ []((constructed /\ lastOp.op \in {"NewDecoder", "Read", "Seek", "SeekPercent"})
            => /\ Len(buf) <= HdrBytesPerFrame
               /\ \A i \in 1..Len(buf) :
                      /\ buf[i].frame = buf[1].frame
                      /\ buf[i].off = HdrBytesPerFrame - Len(buf) + i - 1)
    /\ [][(constructed /\ lastOp'.op = "Read")
            => /\ (buf # <<>>) => (trace' = <<>> /\ frame' = frame /\ srcPos' = srcPos)
               /\ (buf = <<>>) => /\ Len(trace') = 1
                                  /\ trace'[1].ev = "decode"
                                  /\ trace'[1].ok = (err' = "nil")]_vars

\* A Read that found the buffer empty has decoded one frame and left the
\* part of it the caller had no room for.
C18_Witness ==
    /\ constructed
    /\ lastOp.op = "Read"
    /\ err = "nil"
    /\ trace = <<Decoded(frame.idx, frame.idx - 1, TRUE)>>
    /\ frame.idx >= 1
    /\ ret = 1
    /\ Len(buf) = HdrBytesPerFrame - 1

\* C19: on a seekable source, the Reads made one after the other on a fresh
\* Decoder until one reports the end of the stream deliver Length() bytes in
\* all, whether or not the last frame is cut short.
C19_LengthMatchesDelivered ==
    (lastOp.op = "NewDecoder" /\ constructed /\ seekable)
        => Delivered(Cur) = length

\* C20: with no SetVolume call made, every byte Read delivers, the bytes of
\* the first frame that NewDecoder decodes among them, was decoded with
\* volume 1, the volume of a fresh Decoder.
C20_FreshVolumeIsOne ==
    (lastOp.op = "NewDecoder" /\ constructed)
        => /\ volume = VolUnit
           /\ LET r == Read(Cur, MaxReadLen) IN
              /\ r.err = "nil"
              /\ \A i \in 1..Len(r.out) : r.out[i].vol = VolUnit

====
